---- MODULE Spec2Model ----
(***************************************************************************)
(* pkg/topom/redis.go: RedisClient (one connection to one node, poisoned   *)
(* by its first transport error) and RedisPool (idle clients per address,  *)
(* guarded by one mutex).                                                  *)
(*                                                                         *)
(* A string is a sequence of tokens: "" is <<>>, and an address            *)
(* "host:port" is <<host, ":", port>>.  Time is an integer clock.          *)
(* Callers are anonymous goroutines, any number of them: a pool call is    *)
(* made by whoever gets past p.mu.Lock().                                  *)
(***************************************************************************)
EXTENDS Integers, Sequences, FiniteSets, TLC

\* ------------------------------------------------------------------ bounds
MaxClients == 2      \* clients the pool may construct in one behaviour
NumAddrs   == 2      \* node addresses
MaxTime    == 2      \* the clock stops ticking here

Clients  == 1..MaxClients
Times    == 0..MaxTime
\* idle timeouts: none; one whose half rounds to 0; one whose half is 2 ticks
Timeouts == {0, 1, 4}

\* ----------------------------------------------------------------- strings
Colon == ":"
Port  == "6379"
HostNames == <<"a", "b", "c", "d">>
EmptyStr == <<>>
Addr(i) == <<HostNames[i], Colon, Port>>
Addrs == {Addr(i) : i \in 1..NumAddrs}
Secret == <<"s">>

\* errors
Nil == "nil"
ErrEOF == "EOF"
ErrTimeout == "i/o timeout"
ErrReply == "ERR"
ErrFailedRedisClient == "use of failed redis client"
ErrClosedRedisPool == "use of closed redis pool"
ErrDial == "dial failed"
ErrAuth == "auth failed"
ErrSelf == "can not slave of itself"
ErrInvalidResponse == "invalid response"
ErrMigrate == "migrate slot failed"
ErrNilReply == "redigo: nil returned"
ErrType == "redigo: unexpected type"
ErrSyntax == "strconv.ParseInt: invalid syntax"
ErrMissingPort == "missing port in address"
ErrTooManyColons == "too many colons in address"

VARIABLES
    auth, timeout,      \* RedisPool.auth, RedisPool.timeout (fixed at NewRedisPool)
    pool,               \* RedisPool.pool: address -> list of idle clients, front first
    closed,             \* RedisPool.closed
    mu,                 \* RedisPool.mu: TRUE while a caller holds it
    dialing,            \* the address GetClient is dialing, mutex held; else ""
    made,               \* number of RedisClient objects constructed so far
    addr,               \* RedisClient.addr
    LastErr,            \* RedisClient.LastErr
    LastUse,            \* RedisClient.LastUse
    closes,             \* how many times conn.Close() ran on each client's connection
    now,                \* time.Now()
    held,               \* per client, how many callers got it from GetClient and
                        \* have not released it
    ret,                \* the pool call that returned in the last step: what it
                        \* returned (err, c), whether it found the pool closed (was)
                        \* and how many connections it closed (n)
    order,              \* per address, its idle clients by PutClient, latest first
    master,             \* the master the node behind the client under command
                        \* replicates from; "" when it is a master itself
    cres                \* the RedisClient method that returned in the last step:
                        \* its arguments, what it sent and what it returned

poolVars   == <<auth, timeout, pool, closed, mu, dialing>>
clientVars == <<made, addr, LastErr, LastUse, closes>>
vars == <<auth, timeout, pool, closed, mu, dialing, made, addr, LastErr, LastUse,
          closes, now, held, ret, order, master, cres>>

NoRet == [op |-> "none", err |-> Nil, c |-> 0, was |-> FALSE, n |-> 0]

\* no RedisClient method has just returned.  A returned map is a set of
\* <<key, value>> pairs with one pair per key.  ok: how many of the commands
\* sent got a reply from conn.Do; rep: which of the node's replies arrived, 0
\* when none did; named: the slot the error names, if any.
NoCres == [op |-> "none", c |-> 0, arg |-> EmptyStr, slot |-> 0, sent |-> <<>>,
           ok |-> 0, rep |-> 0, err |-> Nil, named |-> <<>>, num |-> 0,
           inf |-> FALSE, str |-> EmptyStr, slots |-> {}, info |-> {}]

\* the node is a master itself
NoMaster == [host |-> EmptyStr, port |-> EmptyStr]

\* --------------------------------------------------------------- helpers
RECURSIVE Count(_, _)
Count(s, x) == IF s = <<>> THEN 0
               ELSE (IF Head(s) = x THEN 1 ELSE 0) + Count(Tail(s), x)

Elems(s) == {s[i] : i \in 1..Len(s)}

Without(s, xs) == SelectSeq(s, LAMBDA x : x \notin xs)

RECURSIVE Flatten(_, _)
Flatten(m, as) ==
    IF as = {} THEN <<>>
    ELSE LET a == CHOOSE x \in as : TRUE IN m[a] \o Flatten(m, as \ {a})

\* every idle client, once per place it has in the registry
IdleSeq == Flatten(pool, DOMAIN pool)
Idle == Elems(IdleSeq)
Held == {c \in Clients : held[c] > 0}

\* NewRedisPool, here with a secret: without one NewRedisClient sends no AUTH and
\* has one way less to fail, and nothing else differs
Init ==
    /\ auth = Secret
    /\ timeout \in Timeouts
    /\ pool = << >>
    /\ closed = FALSE
    /\ mu = FALSE
    /\ dialing = EmptyStr
    /\ made = 0
    /\ addr = [c \in Clients |-> EmptyStr]
    /\ LastErr = [c \in Clients |-> Nil]
    /\ LastUse = [c \in Clients |-> 0]
    /\ closes = [c \in Clients |-> 0]
    /\ now = 0
    /\ held = [c \in Clients |-> 0]
    /\ ret = NoRet
    /\ order = [a \in Addrs |-> <<>>]
    /\ master = NoMaster
    /\ cres = NoCres

\* what a step that returns from no pool call leaves in ret
Quiet == IF mu THEN ret ELSE NoRet

\* the clock
Tick ==
    /\ now < MaxTime
    /\ now' = now + 1
    /\ ret' = Quiet
    /\ cres' = NoCres
    /\ UNCHANGED <<poolVars, clientVars, held, order, master>>

\* RedisPool.isRecyclable
\* isRecyclable that still accepts a client at the instant its half timeout ends
isRecyclableInclusive(c) ==
    IF LastErr[c] # Nil THEN FALSE
    ELSE IF timeout = 0 THEN TRUE
    ELSE LastUse[c] + (timeout \div 2) >= now

isRecyclable(c) ==
    IF LastErr[c] # Nil THEN FALSE
    ELSE IF timeout = 0 THEN TRUE
    ELSE LastUse[c] + (timeout \div 2) > now

\* the fields of client c that command reads and writes
Client(c) == [LastErr |-> LastErr[c], LastUse |-> LastUse[c]]

\* command that does not look at LastErr
commandUnchecked(cl, out) ==
    IF out # Nil
    THEN [err |-> out, sent |-> TRUE, LastErr |-> out, LastUse |-> cl.LastUse]
    ELSE [err |-> Nil, sent |-> TRUE, LastErr |-> Nil, LastUse |-> now]

\* command that leaves LastUse alone
commandKeepsLastUse(cl, out) ==
    IF cl.LastErr # Nil
    THEN [err |-> ErrFailedRedisClient, sent |-> FALSE,
          LastErr |-> cl.LastErr, LastUse |-> cl.LastUse]
    ELSE IF out # Nil
    THEN [err |-> out, sent |-> TRUE, LastErr |-> out, LastUse |-> cl.LastUse]
    ELSE [err |-> Nil, sent |-> TRUE, LastErr |-> Nil, LastUse |-> cl.LastUse]

\* RedisClient.command on a client whose fields are cl, when conn.Do would
\* answer `out` (Nil: a reply arrives; otherwise the error of conn.Do).
\* sent: whether the command went out on the connection; LastErr, LastUse: the
\* client's fields afterwards.
command(cl, out) ==
    IF cl.LastErr # Nil
    THEN [err |-> ErrFailedRedisClient, sent |-> FALSE,
          LastErr |-> cl.LastErr, LastUse |-> cl.LastUse]
    ELSE IF out # Nil
    THEN [err |-> out, sent |-> TRUE, LastErr |-> out, LastUse |-> cl.LastUse]
    ELSE [err |-> Nil, sent |-> TRUE, LastErr |-> Nil, LastUse |-> now]

\* a caller issues one command on a client it holds (which transport error it
\* meets makes no difference to the pool)
Use(c) ==
    /\ held[c] > 0
    /\ \E out \in {Nil, ErrEOF} :
         LET r == command(Client(c), out) IN
         /\ LastErr' = [LastErr EXCEPT ![c] = r.LastErr]
         /\ LastUse' = [LastUse EXCEPT ![c] = r.LastUse]
    /\ ret' = Quiet
    /\ UNCHANGED <<poolVars, made, addr, closes, now, held, order, master, cres>>

\* RedisClient.Close on every client of the sequence cs.  heldAfter is `held` as
\* the step leaves it: a closed client that neither the pool nor a caller refers
\* to any more is garbage, and its fields with it.
CloseConns(cs, heldAfter) ==
    LET gone == {c \in Elems(cs) : heldAfter[c] = 0} IN
    /\ closes' = [c \in Clients |-> closes[c] + Count(cs, c)]
    /\ addr' = [c \in Clients |-> IF c \in gone THEN EmptyStr ELSE addr[c]]
    /\ LastErr' = [c \in Clients |-> IF c \in gone THEN Nil ELSE LastErr[c]]
    /\ LastUse' = [c \in Clients |-> IF c \in gone THEN 0 ELSE LastUse[c]]

\* a call that enters its body without taking p.mu
LockFree == TRUE

\* p.mu.Lock() at the head of Close, Cleanup, GetClient and PutClient: a caller
\* gets past it when nobody holds the mutex.  A body runs as one step from there
\* to its return, except that GetClient stops, mutex held, before NewRedisClient.
Lock == ~mu

\* return from a pool call: the deferred p.mu.Unlock() runs
\* a return that unlocks on success only
ReturnLockedOnError(op, err, c, n) ==
    /\ mu' = (err # Nil)
    /\ dialing' = EmptyStr
    /\ ret' = [op |-> op, err |-> err, c |-> c, was |-> closed, n |-> n]

Return(op, err, c, n) ==
    /\ mu' = FALSE
    /\ dialing' = EmptyStr
    /\ ret' = [op |-> op, err |-> err, c |-> c, was |-> closed, n |-> n]

\* Close that closes the idle clients and forgets to take them out of the registry
CloseKeepsRegistry ==
    /\ Lock
    /\ IF closed
       THEN UNCHANGED <<closed, pool, closes, addr, LastErr, LastUse, order>>
       ELSE /\ closed' = TRUE
            /\ closes' = [c \in Clients |-> closes[c] + Count(IdleSeq, c)]
            /\ UNCHANGED <<pool, addr, LastErr, LastUse, order>>
    /\ Return("Close", Nil, 0, IF closed THEN 0 ELSE Len(IdleSeq))
    /\ UNCHANGED <<auth, timeout, made, now, held, master, cres>>

\* RedisPool.Close
Close ==
    /\ Lock
    /\ IF closed
       THEN UNCHANGED <<closed, pool, closes, addr, LastErr, LastUse, order>>
       ELSE /\ closed' = TRUE
            /\ CloseConns(IdleSeq, held)
            /\ pool' = << >>
            /\ order' = [a \in Addrs |-> <<>>]
    /\ Return("Close", Nil, 0, IF closed THEN 0 ELSE Len(IdleSeq))
    /\ UNCHANGED <<auth, timeout, made, now, held, master, cres>>

\* the loop of Cleanup handing the clients it keeps back in reverse order
RECURSIVE CleanupListReversed(_, _)
CleanupListReversed(l, i) ==
    IF i = 0 THEN <<>>
    ELSE LET c == l[i] IN
         IF isRecyclable(c) THEN <<c>> \o CleanupListReversed(l, i - 1)
         ELSE CleanupListReversed(l, i - 1)

\* the loop of Cleanup over one list: i iterations of Remove(Front), then
\* PushBack when recyclable
RECURSIVE CleanupList(_, _)
CleanupList(l, i) ==
    IF i = 0 THEN l
    ELSE LET c == Head(l) IN
         IF isRecyclable(c) THEN CleanupList(Append(Tail(l), c), i - 1)
         ELSE CleanupList(Tail(l), i - 1)

\* the loop of Cleanup dropping stale clients without c.Close()
CleanupDroppedUnclosed(l) == <<>>

\* the clients that loop closes, in the order it meets them
CleanupDropped(l) == SelectSeq(l, LAMBDA c : ~isRecyclable(c))

\* Cleanup without its test of p.closed
CleanupUnchecked ==
    /\ Lock
    /\ LET swept == [a \in DOMAIN pool |-> CleanupList(pool[a], Len(pool[a]))]
           keep == {a \in DOMAIN pool : Len(swept[a]) # 0}
           dropped == Flatten([a \in DOMAIN pool |-> CleanupDropped(pool[a])],
                              DOMAIN pool)
       IN /\ pool' = [a \in keep |-> swept[a]]
          /\ CloseConns(dropped, held)
          /\ order' = [a \in Addrs |-> Without(order[a], Elems(dropped))]
          /\ Return("Cleanup", Nil, 0, Len(dropped))
    /\ UNCHANGED <<auth, timeout, closed, made, now, held, master, cres>>

\* RedisPool.Cleanup
Cleanup ==
    /\ Lock
    /\ IF closed
       THEN /\ UNCHANGED <<pool, closes, addr, LastErr, LastUse, order>>
            /\ Return("Cleanup", ErrClosedRedisPool, 0, 0)
       ELSE LET swept == [a \in DOMAIN pool |-> CleanupList(pool[a], Len(pool[a]))]
                keep == {a \in DOMAIN pool : Len(swept[a]) # 0}
                dropped == Flatten([a \in DOMAIN pool |-> CleanupDropped(pool[a])],
                                   DOMAIN pool)
            IN /\ pool' = [a \in keep |-> swept[a]]
               /\ CloseConns(dropped, held)
               /\ order' = [a \in Addrs |-> Without(order[a], Elems(dropped))]
               /\ Return("Cleanup", Nil, 0, Len(dropped))
    /\ UNCHANGED <<auth, timeout, closed, made, now, held, master, cres>>

\* the loop of GetClient returning list.Front() without removing it
RECURSIVE ScanKeepsHit(_, _, _)
ScanKeepsHit(l, i, dropped) ==
    IF i = 0 THEN [hit |-> 0, rest |-> l, dropped |-> dropped]
    ELSE LET c == Head(l) IN
         IF isRecyclable(c) THEN [hit |-> c, rest |-> l, dropped |-> dropped]
         ELSE ScanKeepsHit(Tail(l), i - 1, Append(dropped, c))

\* the loop of GetClient returning the first client without asking isRecyclable
ScanTakesFirst(l, i, dropped) ==
    IF i = 0 THEN [hit |-> 0, rest |-> l, dropped |-> dropped]
    ELSE [hit |-> Head(l), rest |-> Tail(l), dropped |-> dropped]

\* the loop of GetClient dropping stale clients without c.Close()
RECURSIVE ScanLeaks(_, _, _)
ScanLeaks(l, i, dropped) ==
    IF i = 0 THEN [hit |-> 0, rest |-> l, dropped |-> dropped]
    ELSE LET c == Head(l) IN
         IF isRecyclable(c) THEN [hit |-> c, rest |-> Tail(l), dropped |-> dropped]
         ELSE ScanLeaks(Tail(l), i - 1, dropped)

\* the loop of GetClient over one list: i iterations of Remove(Front), stopping
\* at the first recyclable client; the others are closed
RECURSIVE Scan(_, _, _)
Scan(l, i, dropped) ==
    IF i = 0 THEN [hit |-> 0, rest |-> l, dropped |-> dropped]
    ELSE LET c == Head(l) IN
         IF isRecyclable(c) THEN [hit |-> c, rest |-> Tail(l), dropped |-> dropped]
         ELSE Scan(Tail(l), i - 1, Append(dropped, c))

\* Addresses are interchangeable: a caller that asks for an address the state
\* does not mention asks for the least such address.
Mentioned == DOMAIN pool \cup {addr[c] : c \in Clients} \cup {dialing}
Known(a) == \/ a \in Mentioned
            \/ \E i \in 1..NumAddrs :
                 a = Addr(i) /\ \A j \in 1..(i - 1) : Addr(j) \in Mentioned

\* RedisPool.GetClient up to the call of NewRedisClient
GetClient(a) ==
    /\ Lock
    /\ Known(a)
    /\ IF closed
       THEN /\ UNCHANGED <<pool, closes, addr, LastErr, LastUse, held, order>>
            /\ Return("GetClient", ErrClosedRedisPool, 0, 0)
       ELSE LET s == IF a \in DOMAIN pool THEN Scan(pool[a], Len(pool[a]), <<>>)
                     ELSE [hit |-> 0, rest |-> <<>>, dropped |-> <<>>]
            IN /\ pool' = IF a \in DOMAIN pool THEN [pool EXCEPT ![a] = s.rest] ELSE pool
               /\ CloseConns(s.dropped, held)
               /\ order' = [x \in Addrs |-> Without(order[x], Elems(s.dropped) \cup {s.hit})]
               /\ IF s.hit # 0
                  THEN /\ held' = [held EXCEPT ![s.hit] = @ + 1]
                       /\ Return("GetClient", Nil, s.hit, Len(s.dropped))
                  ELSE /\ mu' = TRUE
                       /\ dialing' = a
                       /\ ret' = [NoRet EXCEPT !.n = Len(s.dropped)]
                       /\ UNCHANGED held
    /\ UNCHANGED <<auth, timeout, closed, made, now, master, cres>>

\* NewRedisClient that hands the client out although AUTH failed, the
\* connection left open
DialAuthIgnored ==
    /\ mu /\ dialing # EmptyStr
    /\ \/ /\ Return("GetClient", ErrDial, 0, ret.n)
          /\ UNCHANGED <<made, addr, LastErr, LastUse, held>>
       \/ /\ made < MaxClients
          /\ \E err \in {Nil} \cup (IF auth # EmptyStr THEN {ErrAuth} ELSE {}) :
             LET c == made + 1 IN
             /\ made' = c
             /\ addr' = [addr EXCEPT ![c] = dialing]
             /\ LastErr' = [LastErr EXCEPT ![c] = Nil]
             /\ LastUse' = [LastUse EXCEPT ![c] = now]
             /\ held' = [held EXCEPT ![c] = @ + 1]
             /\ Return("GetClient", err, c, ret.n)
    /\ UNCHANGED <<auth, timeout, pool, closed, closes, now, order, master, cres>>

\* NewRedisClient, called by GetClient with p.mu held, and GetClient's return
Dial ==
    /\ mu /\ dialing # EmptyStr
    /\ \/ /\ Return("GetClient", ErrDial, 0, ret.n)                       \* DialTimeout fails
          /\ UNCHANGED <<made, addr, LastErr, LastUse, held>>
       \/ /\ auth # EmptyStr                                       \* AUTH fails
          /\ Return("GetClient", ErrAuth, 0, ret.n + 1)
          /\ UNCHANGED <<made, addr, LastErr, LastUse, held>>
       \/ /\ made < MaxClients
          /\ LET c == made + 1 IN
             /\ made' = c
             /\ addr' = [addr EXCEPT ![c] = dialing]
             /\ LastErr' = [LastErr EXCEPT ![c] = Nil]
             /\ LastUse' = [LastUse EXCEPT ![c] = now]
             /\ held' = [held EXCEPT ![c] = @ + 1]
             /\ Return("GetClient", Nil, c, ret.n)
    /\ UNCHANGED <<auth, timeout, pool, closed, closes, now, order, master, cres>>

\* PutClient with PushBack
PushBack(l, c) == Append(l, c)

\* list.PushFront
PushFront(l, c) == <<c>> \o l

\* PutClient that pools the client without asking isRecyclable
PutClientUnchecked(c) ==
    /\ Lock
    /\ held[c] > 0
    /\ held' = [held EXCEPT ![c] = @ - 1]
    /\ IF closed
       THEN /\ CloseConns(<<c>>, [held EXCEPT ![c] = @ - 1])
            /\ UNCHANGED <<pool, order>>
       ELSE /\ pool' = IF addr[c] \in DOMAIN pool
                       THEN [pool EXCEPT ![addr[c]] = PushFront(@, c)]
                       ELSE [a \in DOMAIN pool \cup {addr[c]} |->
                               IF a = addr[c] THEN PushFront(<<>>, c) ELSE pool[a]]
            /\ order' = [order EXCEPT ![addr[c]] = <<c>> \o Without(@, {c})]
            /\ UNCHANGED <<closes, addr, LastErr, LastUse>>
    /\ Return("PutClient", Nil, 0, IF closed THEN 1 ELSE 0)
    /\ UNCHANGED <<auth, timeout, closed, made, now, master, cres>>

\* RedisPool.PutClient, called by a caller on a client it holds
PutClient(c) ==
    /\ Lock
    /\ held[c] > 0
    /\ held' = [held EXCEPT ![c] = @ - 1]
    /\ IF closed \/ ~isRecyclable(c)
       THEN /\ CloseConns(<<c>>, [held EXCEPT ![c] = @ - 1])
            /\ UNCHANGED <<pool, order>>
       ELSE /\ pool' = IF addr[c] \in DOMAIN pool
                       THEN [pool EXCEPT ![addr[c]] = PushFront(@, c)]
                       ELSE [a \in DOMAIN pool \cup {addr[c]} |->
                               IF a = addr[c] THEN PushFront(<<>>, c) ELSE pool[a]]
            /\ order' = [order EXCEPT ![addr[c]] = <<c>> \o Without(@, {c})]
            /\ UNCHANGED <<closes, addr, LastErr, LastUse>>
    /\ Return("PutClient", Nil, 0, IF closed \/ ~isRecyclable(c) THEN 1 ELSE 0)
    /\ UNCHANGED <<auth, timeout, closed, made, now, master, cres>>

Next ==
    \/ Tick
    \/ \E c \in Clients : Use(c)
    \/ Close
    \/ Cleanup
    \/ \E a \in Addrs : GetClient(a)
    \/ Dial
    \/ \E c \in Clients : PutClient(c)

Spec == Init /\ [][Next]_vars

\* NewRedisClient returns: redis.DialTimeout gives up after a second, and the
\* node answers AUTH or the read timeout of the connection, when the pool has
\* one, ends the wait
SpecFair == Spec /\ WF_vars(Dial)

\* ------------------------------------------------- replies and their decoding
\* what conn.Do hands back on success: an integer, a bulk string, an array
\* of replies, or nil
IntReply(n) == [t |-> "int", v |-> n]
Bulk(s)     == [t |-> "bulk", v |-> s]
Arr(a)      == [t |-> "arr", v |-> a]
NilReply    == [t |-> "nil", v |-> 0]

Digits == <<"0", "1", "2", "3", "4", "5", "6", "7", "8", "9">>
IsDigit(d) == \E i \in 1..Len(Digits) : Digits[i] = d
DigitVal(d) == (CHOOSE i \in 1..Len(Digits) : Digits[i] = d) - 1

RECURSIVE ParseInt(_, _)
ParseInt(s, acc) ==
    IF s = <<>> THEN acc ELSE ParseInt(Tail(s), 10 * acc + DigitVal(Head(s)))

\* strconv.ParseInt of an unsigned decimal
Atoi(s) ==
    IF s = <<>> \/ \E i \in 1..Len(s) : ~IsDigit(s[i])
    THEN [err |-> ErrSyntax, v |-> 0]
    ELSE [err |-> Nil, v |-> ParseInt(s, 0)]

\* redis.Int
redisInt(r) ==
    CASE r.t = "int"  -> [err |-> Nil, v |-> r.v]
      [] r.t = "bulk" -> Atoi(r.v)
      [] r.t = "nil"  -> [err |-> ErrNilReply, v |-> 0]
      [] OTHER        -> [err |-> ErrType, v |-> 0]

\* redis.Values
redisValues(r) ==
    CASE r.t = "arr" -> [err |-> Nil, v |-> r.v]
      [] r.t = "nil" -> [err |-> ErrNilReply, v |-> <<>>]
      [] OTHER       -> [err |-> ErrType, v |-> <<>>]

RECURSIVE IntsOf(_)
IntsOf(a) ==
    IF a = <<>> THEN [err |-> Nil, v |-> <<>>]
    ELSE LET h == redisInt(Head(a))
             t == IntsOf(Tail(a))
         IN  IF h.err # Nil THEN [err |-> h.err, v |-> <<>>]
             ELSE IF t.err # Nil THEN t
             ELSE [err |-> Nil, v |-> <<h.v>> \o t.v]

\* redis.Ints
redisInts(r) ==
    LET vs == redisValues(r) IN
    IF vs.err # Nil THEN vs ELSE IntsOf(vs.v)

\* redis.String
redisString(r) ==
    CASE r.t = "bulk" -> [err |-> Nil, v |-> r.v]
      [] r.t = "nil"  -> [err |-> ErrNilReply, v |-> EmptyStr]
      [] OTHER        -> [err |-> ErrType, v |-> EmptyStr]

\* a Go map as a set of <<key, value>> pairs, one per key
MapPut(m, k, v) == {p \in m : p[1] # k} \cup {<<k, v>>}
\* m[k], the zero value "" when k is absent
MapGet(m, k) == IF \E p \in m : p[1] = k
                THEN (CHOOSE p \in m : p[1] = k)[2] ELSE EmptyStr

\* strings.Split(s, sep), sep one token
RECURSIVE Split(_, _, _)
Split(s, sep, cur) ==
    IF s = <<>> THEN <<cur>>
    ELSE IF Head(s) = sep THEN <<cur>> \o Split(Tail(s), sep, <<>>)
    ELSE Split(Tail(s), sep, Append(cur, Head(s)))

\* strings.SplitN(line, ":", 2)
SplitN2(line) ==
    IF \A i \in 1..Len(line) : line[i] # Colon THEN <<line>>
    ELSE LET i == CHOOSE j \in 1..Len(line) :
                     line[j] = Colon /\ \A k \in 1..(j - 1) : line[k] # Colon
         IN  <<SubSeq(line, 1, i - 1), SubSeq(line, i + 1, Len(line))>>

IsSpace(x) == x \in {" ", "\t", "\r", "\n"}
RECURSIVE TrimLeft(_)
TrimLeft(s) == IF s # <<>> /\ IsSpace(Head(s)) THEN TrimLeft(Tail(s)) ELSE s
RECURSIVE TrimRight(_)
TrimRight(s) == IF s # <<>> /\ IsSpace(s[Len(s)])
                THEN TrimRight(SubSeq(s, 1, Len(s) - 1)) ELSE s
\* strings.TrimSpace
TrimSpace(s) == TrimRight(TrimLeft(s))

\* net.JoinHostPort
JoinHostPort(host, port) ==
    IF \E i \in 1..Len(host) : host[i] = Colon
    THEN <<"[">> \o host \o <<"]", Colon>> \o port
    ELSE host \o <<Colon>> \o port

\* net.SplitHostPort of an address without brackets: the port follows the last
\* colon, and the host before it holds none
SplitHostPort(s) ==
    IF \A i \in 1..Len(s) : s[i] # Colon
    THEN [err |-> ErrMissingPort, host |-> EmptyStr, port |-> EmptyStr]
    ELSE LET i == CHOOSE j \in 1..Len(s) :
                     s[j] = Colon /\ \A k \in (j + 1)..Len(s) : s[k] # Colon
         IN  IF \E k \in 1..(i - 1) : s[k] = Colon
             THEN [err |-> ErrTooManyColons, host |-> EmptyStr, port |-> EmptyStr]
             ELSE [err |-> Nil, host |-> SubSeq(s, 1, i - 1),
                   port |-> SubSeq(s, i + 1, Len(s))]

\* ------------------------------------------------------------ the node
\* what conn.Do can answer: a reply (Nil), a transport error, or the error
\* reply of the server, which redigo's Do returns as its error
DoOutcomes == {Nil, ErrEOF, ErrTimeout, ErrReply}

\* the text a node replicating from m answers to INFO
InfoText(m) ==
    IF m = NoMaster
    THEN <<"# Replication", "\r", "\n", "role", Colon, "master", "\r", "\n">>
    ELSE <<"# Replication", "\r", "\n", "role", Colon, "slave", "\r", "\n",
           "master_host", Colon>> \o m.host \o <<"\r", "\n", "master_port", Colon>>
         \o m.port \o <<"\r", "\n">>

\* replies a node may give, well-formed ones and others
InfoReplies(m) == <<Bulk(InfoText(m)), IntReply(0)>>
SlotsInfoReplies ==
    <<Arr(<<>>), Arr(<<Arr(<<IntReply(5), IntReply(17)>>)>>),
      Arr(<<Arr(<<IntReply(5)>>)>>), IntReply(0)>>
MgrtReplies ==
    <<Arr(<<IntReply(0), IntReply(17)>>), Arr(<<IntReply(1), IntReply(0)>>),
      Arr(<<IntReply(0)>>), Bulk(<<"x">>),
      Arr(<<IntReply(0), IntReply(17), IntReply(1)>>),
      Arr(<<IntReply(0), Bulk(<<"x">>)>>), NilReply>>
\* a number as the node writes it, in decimal
RECURSIVE Itoa(_)
Itoa(n) == IF n < 10 THEN <<Digits[n + 1]>>
           ELSE Itoa(n \div 10) \o <<Digits[(n % 10) + 1]>>
\* the reply to CONFIG GET maxmemory of a node whose maxmemory is n
MaxMemoryReply(n) == Arr(<<Bulk(<<"maxmemory">>), Bulk(Itoa(n))>>)
MaxMemories == {0, 17, 1024}
ConfigReplies ==
    <<MaxMemoryReply(0), MaxMemoryReply(17), MaxMemoryReply(1024),
      Arr(<<Bulk(<<"maxmemory">>)>>),
      Arr(<<Bulk(<<"maxmemory">>), Bulk(<<"x">>)>>),
      Arr(<<Bulk(<<"maxmemory">>), NilReply>>), IntReply(0)>>

SlotIds == {0, 5}
\* arguments of SlaveOf: "", the node addresses, and an address without a port
Masters == {EmptyStr} \cup Addrs \cup {<<HostNames[1]>>}

\* the node's master after a SLAVEOF that would make it `new`: a command that
\* met a transport error may or may not have reached the node
NodeAfter(r, out, new) ==
    IF ~r.sent \/ out = ErrReply THEN {master}
    ELSE IF out = Nil THEN {new}
    ELSE {master, new}

\* ------------------------------------------------- RedisClient's methods
\* Each takes the client's fields cl, the outcome `out` of conn.Do and the
\* reply that arrives when out is Nil, and gives the fields afterwards (cl) and
\* what the method returns.

RECURSIVE SlotsOf(_, _, _)
SlotsOf(infos, i, slots) ==
    IF i > Len(infos) THEN [err |-> Nil, slots |-> slots]
    ELSE LET p == redisInts(infos[i]) IN
         IF p.err # Nil \/ Len(p.v) # 2
         THEN [err |-> ErrInvalidResponse, slots |-> {}]
         ELSE SlotsOf(infos, i + 1, MapPut(slots, p.v[1], p.v[2]))

slotsInfo(cl, out, reply) ==
    LET r == command(cl, out) IN
    IF r.err # Nil THEN [cl |-> r, err |-> r.err, slots |-> {}]
    ELSE LET infos == redisValues(reply) IN
         IF infos.err # Nil THEN [cl |-> r, err |-> infos.err, slots |-> {}]
         ELSE LET d == SlotsOf(infos.v, 1, {}) IN
              [cl |-> r, err |-> d.err, slots |-> d.slots]

\* SlotsMgrtTagSlot that does not look at the status
slotsMgrtTagSlotAnyStatus(cl, out, reply, slotId) ==
    LET r == command(cl, out) IN
    IF r.err # Nil THEN [cl |-> r, err |-> r.err, named |-> <<>>, num |-> 0]
    ELSE LET p == redisInts(reply) IN
         IF p.err # Nil \/ Len(p.v) # 2
         THEN [cl |-> r, err |-> ErrInvalidResponse, named |-> <<>>, num |-> 0]
         ELSE [cl |-> r, err |-> Nil, named |-> <<>>, num |-> p.v[2]]

slotsMgrtTagSlot(cl, out, reply, slotId) ==
    LET r == command(cl, out) IN
    IF r.err # Nil THEN [cl |-> r, err |-> r.err, named |-> <<>>, num |-> 0]
    ELSE LET p == redisInts(reply) IN
         IF p.err # Nil \/ Len(p.v) # 2
         THEN [cl |-> r, err |-> ErrInvalidResponse, named |-> <<>>, num |-> 0]
         ELSE IF p.v[1] # 0
         THEN [cl |-> r, err |-> ErrMigrate, named |-> <<slotId>>, num |-> 0]
         ELSE [cl |-> r, err |-> Nil, named |-> <<>>, num |-> p.v[2]]

RECURSIVE InfoOf(_, _, _)
InfoOf(lines, i, info) ==
    IF i > Len(lines) THEN info
    ELSE LET kv == SplitN2(lines[i]) IN
         IF Len(kv) # 2 THEN InfoOf(lines, i + 1, info)
         ELSE LET key == TrimSpace(kv[1]) IN
              IF key # EmptyStr
              THEN InfoOf(lines, i + 1, MapPut(info, key, TrimSpace(kv[2])))
              ELSE InfoOf(lines, i + 1, info)

getInfo(cl, out, reply) ==
    LET r == command(cl, out) IN
    IF r.err # Nil THEN [cl |-> r, err |-> r.err, info |-> {}]
    ELSE LET text == redisString(reply) IN
         IF text.err # Nil THEN [cl |-> r, err |-> text.err, info |-> {}]
         ELSE [cl |-> r, err |-> Nil,
               info |-> InfoOf(Split(text.v, "\n", <<>>), 1, {})]

\* GetMaster that gives back the host without the port
getMasterHostOnly(cl, out, reply) ==
    LET g == getInfo(cl, out, reply) IN
    [cl |-> g.cl, err |-> g.err,
     str |-> IF g.err # Nil THEN EmptyStr ELSE MapGet(g.info, <<"master_host">>)]

getMaster(cl, out, reply) ==
    LET g == getInfo(cl, out, reply) IN
    IF g.err # Nil THEN [cl |-> g.cl, err |-> g.err, str |-> EmptyStr]
    ELSE LET host == MapGet(g.info, <<"master_host">>)
             port == MapGet(g.info, <<"master_port">>)
         IN  IF host = EmptyStr /\ port = EmptyStr
             THEN [cl |-> g.cl, err |-> Nil, str |-> EmptyStr]
             ELSE [cl |-> g.cl, err |-> Nil, str |-> JoinHostPort(host, port)]

\* GetMaxMemory that returns the value as it came
getMaxMemoryRaw(cl, out, reply) ==
    LET r == command(cl, out)
        bad == [cl |-> r, err |-> ErrInvalidResponse, num |-> 0, inf |-> FALSE]
    IN  IF r.err # Nil THEN [cl |-> r, err |-> r.err, num |-> 0, inf |-> FALSE]
        ELSE LET p == redisValues(reply) IN
             IF p.err # Nil \/ Len(p.v) # 2 THEN bad
             ELSE LET v == redisInt(p.v[2]) IN
                  IF v.err # Nil THEN bad
                  ELSE [cl |-> r, err |-> Nil, num |-> v.v, inf |-> FALSE]

getMaxMemory(cl, out, reply) ==
    LET r == command(cl, out)
        bad == [cl |-> r, err |-> ErrInvalidResponse, num |-> 0, inf |-> FALSE]
    IN  IF r.err # Nil THEN [cl |-> r, err |-> r.err, num |-> 0, inf |-> FALSE]
        ELSE LET p == redisValues(reply) IN
             IF p.err # Nil \/ Len(p.v) # 2 THEN bad
             ELSE LET v == redisInt(p.v[2]) IN
                  IF v.err # Nil THEN bad
                  ELSE IF v.v # 0
                  THEN [cl |-> r, err |-> Nil, num |-> v.v, inf |-> FALSE]
                  ELSE [cl |-> r, err |-> Nil, num |-> 0, inf |-> TRUE]

\* ------------------------------------------ a caller's calls on its client
\* In each, conn.Do answers `out` and the node, when out is Nil, its i-th reply;
\* when conn.Do fails no reply arrives, and one choice of i stands for all.
Sent(r, cmd) == IF r.sent THEN <<cmd>> ELSE <<>>
\* the i-th reply of the node arrives when the command went out and conn.Do
\* met no error
Arrived(r, out, i) == IF r.sent /\ out = Nil THEN i ELSE 0
Ok(r, out) == IF r.sent /\ out = Nil THEN 1 ELSE 0

\* the method returns: the client's fields are now cl, and res is what it did
Done(c, cl, res) ==
    /\ LastErr' = [LastErr EXCEPT ![c] = cl.LastErr]
    /\ LastUse' = [LastUse EXCEPT ![c] = cl.LastUse]
    /\ cres' = res

Called(op, c) == [NoCres EXCEPT !.op = op, !.c = c]

SlotsInfo(c) ==
    /\ held[c] > 0
    /\ \E out \in DoOutcomes, i \in 1..Len(SlotsInfoReplies) :
         /\ out # Nil => i = 1
         /\ LET m == slotsInfo(Client(c), out, SlotsInfoReplies[i]) IN
            Done(c, m.cl, [Called("SlotsInfo", c) EXCEPT
                          !.sent = Sent(m.cl, "SLOTSINFO"),
                          !.ok = Ok(m.cl, out), !.rep = Arrived(m.cl, out, i),
                          !.err = m.err, !.slots = m.slots])
    /\ UNCHANGED <<poolVars, made, addr, closes, now, held, ret, order, master>>

SlotsMgrtTagSlot(c, host, port, slotId) ==
    /\ held[c] > 0
    /\ \E out \in DoOutcomes, i \in 1..Len(MgrtReplies) :
         /\ out # Nil => i = 1
         /\ LET m == slotsMgrtTagSlot(Client(c), out, MgrtReplies[i], slotId) IN
            Done(c, m.cl, [Called("SlotsMgrtTagSlot", c) EXCEPT
                          !.arg = JoinHostPort(host, port), !.slot = slotId,
                          !.sent = Sent(m.cl, "SLOTSMGRTTAGSLOT"),
                          !.ok = Ok(m.cl, out), !.rep = Arrived(m.cl, out, i),
                          !.err = m.err,
                          !.named = m.named, !.num = m.num])
    /\ UNCHANGED <<poolVars, made, addr, closes, now, held, ret, order, master>>

GetInfo(c) ==
    /\ held[c] > 0
    /\ \E out \in DoOutcomes, i \in 1..Len(InfoReplies(master)) :
         /\ out # Nil => i = 1
         /\ LET m == getInfo(Client(c), out, InfoReplies(master)[i]) IN
            Done(c, m.cl, [Called("GetInfo", c) EXCEPT
                          !.sent = Sent(m.cl, "INFO"),
                          !.ok = Ok(m.cl, out), !.rep = Arrived(m.cl, out, i),
                          !.err = m.err, !.info = m.info])
    /\ UNCHANGED <<poolVars, made, addr, closes, now, held, ret, order, master>>

GetMaster(c) ==
    /\ held[c] > 0
    /\ \E out \in DoOutcomes, i \in 1..Len(InfoReplies(master)) :
         /\ out # Nil => i = 1
         /\ LET m == getMaster(Client(c), out, InfoReplies(master)[i]) IN
            Done(c, m.cl, [Called("GetMaster", c) EXCEPT
                          !.sent = Sent(m.cl, "INFO"),
                          !.ok = Ok(m.cl, out), !.rep = Arrived(m.cl, out, i),
                          !.err = m.err, !.str = m.str])
    /\ UNCHANGED <<poolVars, made, addr, closes, now, held, ret, order, master>>

GetMaxMemory(c) ==
    /\ held[c] > 0
    /\ \E out \in DoOutcomes, i \in 1..Len(ConfigReplies) :
         /\ out # Nil => i = 1
         /\ LET m == getMaxMemory(Client(c), out, ConfigReplies[i]) IN
            Done(c, m.cl, [Called("GetMaxMemory", c) EXCEPT
                          !.sent = Sent(m.cl, "CONFIG GET maxmemory"),
                          !.ok = Ok(m.cl, out), !.rep = Arrived(m.cl, out, i),
                          !.err = m.err,
                          !.num = m.num, !.inf = m.inf])
    /\ UNCHANGED <<poolVars, made, addr, closes, now, held, ret, order, master>>

\* SlaveOf that does not compare master with the client's address
IsSelfNever(c, m) == FALSE

\* master == c.addr
IsSelf(c, m) == m = addr[c]

\* SlaveOf that takes "" for the address of a master
IsDetachNever(m) == FALSE

\* master == ""
IsDetach(m) == m = EmptyStr

SlaveOf(c, m) ==
    /\ held[c] > 0
    /\ LET call == [Called("SlaveOf", c) EXCEPT !.arg = m] IN
       IF IsSelf(c, m)
       THEN /\ cres' = [call EXCEPT !.err = ErrSelf]
            /\ UNCHANGED <<LastErr, LastUse, master>>
       ELSE IF IsDetach(m)
       THEN \E out \in DoOutcomes :
              LET r == command(Client(c), out) IN
              /\ Done(c, r, [call EXCEPT !.sent = Sent(r, "SLAVEOF NO ONE"),
                                         !.ok = Ok(r, out), !.err = r.err])
              /\ master' \in NodeAfter(r, out, NoMaster)
       ELSE \E out \in DoOutcomes, i \in 1..Len(InfoReplies(master)),
               out2 \in DoOutcomes :
              LET g == getMaster(Client(c), out, InfoReplies(master)[i])
                  hp == SplitHostPort(m)
                  r == command(g.cl, out2)
                  looked == [call EXCEPT !.sent = Sent(g.cl, "INFO"),
                                         !.ok = Ok(g.cl, out),
                                         !.rep = Arrived(g.cl, out, i)]
              IN  IF g.err # Nil
                  THEN /\ Done(c, g.cl, [looked EXCEPT !.err = g.err])
                       /\ UNCHANGED master
                  ELSE IF g.str = m
                  THEN /\ Done(c, g.cl, looked)
                       /\ UNCHANGED master
                  ELSE IF hp.err # Nil
                  THEN /\ Done(c, g.cl, [looked EXCEPT !.err = hp.err])
                       /\ UNCHANGED master
                  ELSE /\ Done(c, r, [looked EXCEPT
                                        !.sent = @ \o Sent(r, "SLAVEOF"),
                                        !.ok = @ + Ok(r, out2),
                                        !.err = r.err])
                       /\ master' \in NodeAfter(r, out2,
                                        [host |-> hp.host, port |-> hp.port])
    /\ UNCHANGED <<poolVars, made, addr, closes, now, held, ret, order>>

\* one client, constructed by NewRedisClient for some node and in the hands of
\* its caller; the node is a master or replicates from one of the nodes
InitClient ==
    /\ auth = Secret
    /\ timeout = 0
    /\ pool = << >>
    /\ closed = FALSE
    /\ mu = FALSE
    /\ dialing = EmptyStr
    /\ made = 1
    /\ \E a \in Addrs : addr = [c \in Clients |-> IF c = 1 THEN a ELSE EmptyStr]
    /\ LastErr = [c \in Clients |-> Nil]
    /\ LastUse = [c \in Clients |-> 0]
    /\ closes = [c \in Clients |-> 0]
    /\ now = 0
    /\ held = [c \in Clients |-> IF c = 1 THEN 1 ELSE 0]
    /\ ret = NoRet
    /\ order = [a \in Addrs |-> <<>>]
    /\ master \in {NoMaster} \cup
                  {[host |-> <<HostNames[i]>>, port |-> <<Port>>] : i \in 1..NumAddrs}
    /\ cres = NoCres

NextClient ==
    \/ Tick
    \/ \E c \in Clients : SlotsInfo(c)
    \/ \E c \in Clients, i \in 1..NumAddrs, slotId \in SlotIds :
         SlotsMgrtTagSlot(c, <<HostNames[i]>>, <<Port>>, slotId)
    \/ \E c \in Clients : GetInfo(c)
    \/ \E c \in Clients : GetMaster(c)
    \/ \E c \in Clients : GetMaxMemory(c)
    \/ \E c \in Clients, m \in Masters : SlaveOf(c, m)

SpecClient == InitClient /\ [][NextClient]_vars

\* the same client and its caller, with a pool of any idle timeout to release
\* the client into and to get it back from; the other clients of the pool were
\* closed before
InitRelease ==
    /\ auth = Secret
    /\ timeout \in Timeouts
    /\ pool = << >>
    /\ closed = FALSE
    /\ mu = FALSE
    /\ dialing = EmptyStr
    /\ made = MaxClients
    /\ \E a \in Addrs : addr = [c \in Clients |-> IF c = 1 THEN a ELSE EmptyStr]
    /\ LastErr = [c \in Clients |-> Nil]
    /\ LastUse = [c \in Clients |-> 0]
    /\ closes = [c \in Clients |-> IF c = 1 THEN 0 ELSE 1]
    /\ now = 0
    /\ held = [c \in Clients |-> IF c = 1 THEN 1 ELSE 0]
    /\ ret = NoRet
    /\ order = [a \in Addrs |-> <<>>]
    /\ master = NoMaster
    /\ cres = NoCres

\* the methods whose replies may be malformed or report a failed migration,
\* and the pool's GetClient and PutClient
NextRelease ==
    \/ Tick
    \/ \E c \in Clients : SlotsInfo(c)
    \/ \E c \in Clients, slotId \in SlotIds :
         SlotsMgrtTagSlot(c, <<HostNames[1]>>, <<Port>>, slotId)
    \/ \E c \in Clients : GetMaxMemory(c)
    \/ \E c \in Clients : PutClient(c)
    \/ \E a \in Addrs : GetClient(a)
    \/ Dial

SpecRelease == InitRelease /\ [][NextRelease]_vars

\* ------------------------------------------------------------ the claims
\* the steps of the pool, told by what they leave behind
Returned(op) == ret'.op = op                     \* a call of op returns in this step
Reused(c) == Returned("GetClient") /\ ret'.err = Nil /\ ret'.c = c /\ made' = made
Built(c)  == Returned("GetClient") /\ ret'.err = Nil /\ ret'.c = c /\ made' # made
Released(c) == held'[c] < held[c]
\* GetClient scans the list of address a in this step
Scanned(a) == /\ ~mu /\ ~closed /\ a \in DOMAIN pool
              /\ \/ \E c \in Elems(pool[a]) : Reused(c)
                 \/ mu' /\ dialing' = a

\* the recyclable clients of a list, in the list's order
Recyclables(l) == SelectSeq(l, LAMBDA x : isRecyclable(x))

\* the errors of the transport under conn.Do
TransportErrs == {ErrEOF, ErrTimeout}
\* the call that returns in this step is one that goes to the network when
\* the client lets it: every method but SlaveOf of the client's own address
NetworkReaching ==
    /\ cres'.op # "none"
    /\ ~(cres'.op = "SlaveOf" /\ cres'.arg = addr[cres'.c])

\* C1: a command that returns a transport error leaves that error in the
\* client's LastErr; from then on LastErr is neither cleared nor replaced, and
\* every call of SlotsInfo, SlotsMgrtTagSlot, GetInfo, GetMaster, GetMaxMemory
\* or of a SlaveOf that goes to the network returns ErrFailedRedisClient with
\* nothing sent on the connection.
C1_Step ==
    \A c \in Clients :
      /\ (cres'.c = c /\ cres'.err \in TransportErrs) => LastErr'[c] = cres'.err
      /\ LastErr[c] # Nil =>
            /\ LastErr'[c] = LastErr[c]
            /\ (cres'.c = c /\ NetworkReaching) =>
                  /\ cres'.err = ErrFailedRedisClient
                  /\ cres'.sent = <<>>
                  /\ LastUse'[c] = LastUse[c]
C1_Poisoned == [][C1_Step]_vars

\* C1 happens: a client poisoned by a timeout has just refused a call
C1_Witness ==
    /\ LastErr[1] = ErrTimeout
    /\ cres.op = "GetMaxMemory" /\ cres.c = 1
    /\ cres.err = ErrFailedRedisClient /\ cres.sent = <<>>

\* C2: a client is at most once in the whole registry, is never idle while a
\* caller holds it, and is never held by two callers: over the registry and the
\* callers together, every client is counted at most once.
C2_OwnedOnce == \A c \in Clients : Count(IdleSeq, c) + held[c] <= 1

\* GetClient has handed out client 1 again while client 2 sits idle.
C2_Witness == /\ ret.op = "GetClient" /\ ret.c = 1 /\ made = 2
              /\ held[1] = 1 /\ 2 \in Idle

\* C3 as claimed: whatever GetClient returns is recyclable, reused or new, for
\* every idle timeout.
C3_Original ==
    (ret.op = "GetClient" /\ ret.err = Nil) => isRecyclable(ret.c)

\* C3 amended: a client GetClient takes from the idle list is recyclable, for
\* every timeout; a client it constructs is recyclable when the timeout is 0 or
\* half of it is not 0.  Every client GetClient removes from the list without
\* returning it is non-recyclable and is closed, all of them ahead of the one
\* returned are removed, and a closed client is never idle or held again.
C3_Step ==
    /\ \A c \in Clients :
         /\ Reused(c) => isRecyclable(c)
         /\ Built(c) /\ (timeout = 0 \/ timeout \div 2 # 0) =>
              /\ LastErr'[c] = Nil
              /\ timeout = 0 \/ LastUse'[c] + (timeout \div 2) > now'
         /\ closes'[c] >= 1 => held'[c] = 0 /\ Count(IdleSeq, c)' = 0
    /\ \A a \in Addrs : Scanned(a) =>
         \A i \in 1..Len(pool[a]) :
            LET x == pool[a][i] IN
            /\ (x \notin Elems(pool'[a]) /\ ~Reused(x)) =>
                  ~isRecyclable(x) /\ closes'[x] = closes[x] + 1
            /\ (\A j \in 1..i : ~Reused(pool[a][j])) /\ ~isRecyclable(x) =>
                  x \notin Elems(pool'[a])
C3_GetClientRecyclable == [][C3_Step]_vars

\* GetClient closed a stale client at the head of the list and returned the
\* one behind it.
C3_Witness == /\ ret.op = "GetClient" /\ ret.err = Nil /\ ret.n = 1
              /\ ret.c # 0 /\ made = 2 /\ LastUse[ret.c] < now /\ timeout = 4

\* C4: PutClient on a closed pool, or of a client that is not recyclable, closes
\* the client and leaves the registry as it was; otherwise the client becomes
\* the head of the list of its own address, a list made for it when absent, and
\* nothing else in the registry changes.
C4_Step ==
    \A c \in Clients : Released(c) =>
        IF closed \/ ~isRecyclable(c)
        THEN pool' = pool /\ closes'[c] = closes[c] + 1
        ELSE /\ DOMAIN pool' = DOMAIN pool \cup {addr[c]}
             /\ pool'[addr[c]] = <<c>> \o (IF addr[c] \in DOMAIN pool
                                           THEN pool[addr[c]] ELSE <<>>)
             /\ \A a \in DOMAIN pool \ {addr[c]} : pool'[a] = pool[a]
             /\ closes' = closes
C4_PutClient == [][C4_Step]_vars

\* PutClient has pushed client 2 in front of client 1.
C4_Witness == /\ ret.op = "PutClient" /\ ret.n = 0
              /\ \E a \in DOMAIN pool : pool[a] = <<2, 1>> /\ addr[2] = a

\* C5 as claimed: GetClient, PutClient and Cleanup on a closed pool all fail
\* with ErrClosedRedisPool.
C5_Original ==
    (ret.was /\ ret.op \in {"GetClient", "PutClient", "Cleanup"})
        => ret.err = ErrClosedRedisPool

\* C5 amended: on a closed pool GetClient and Cleanup fail with
\* ErrClosedRedisPool and change nothing; PutClient, which returns no value,
\* closes the client it is given and leaves the registry empty.
C5_Step ==
    closed =>
      /\ (Returned("GetClient") \/ Returned("Cleanup")) =>
            /\ ret'.err = ErrClosedRedisPool /\ ret'.c = 0
            /\ pool' = pool /\ held' = held /\ closes' = closes
      /\ Returned("PutClient") =>
            /\ ret'.err = Nil /\ pool' = << >>
            /\ \E c \in Clients : Released(c) /\ closes'[c] = closes[c] + 1
C5_AfterClose == [][C5_Step]_vars

\* GetClient was refused by a closed pool while a caller still holds a client.
C5_Witness == /\ ret.was /\ ret.op = "GetClient" /\ ret.err = ErrClosedRedisPool
              /\ Held # {}

\* C6: the first Close sets closed, closes every idle client once and empties
\* the registry; a later Close returns nil and changes nothing; and once closed
\* the pool stays closed with an empty registry whatever is called.
C6_Step ==
    /\ Returned("Close") =>
         /\ ret'.err = Nil /\ closed' /\ pool' = << >>
         /\ IF closed
            THEN closes' = closes /\ pool' = pool /\ held' = held
            ELSE \A c \in Clients : closes'[c] = closes[c] + Count(IdleSeq, c)
    /\ closed => closed' /\ pool = << >> /\ pool' = << >>
C6_CloseIdempotent == [][C6_Step]_vars

\* A second Close has returned, on a pool one of whose clients has been closed.
C6_Witness == /\ ret.op = "Close" /\ ret.was /\ ret.err = Nil
              /\ \E c \in Clients : closes[c] = 1

\* C7: GetClient(a) returns, of the clients idle at a and recyclable, the one
\* released last; every client released after it has left the list by then;
\* and it goes on to construct a client only when none is recyclable.
C7_Step ==
    \A a \in Addrs : Scanned(a) =>
        LET live == SelectSeq(order[a],
                              LAMBDA x : x \in Elems(pool[a]) /\ isRecyclable(x))
        IN /\ \A c \in Elems(pool[a]) : Reused(c) =>
                /\ live # <<>> /\ c = Head(live)
                /\ \A i \in 1..Len(order[a]) :
                     (\A j \in 1..i : order[a][j] # c) =>
                        order[a][i] \notin Elems(pool'[a])
           /\ mu' => live = <<>>
C7_LIFO == [][C7_Step]_vars

\* Client 1, released after client 2, is handed out again and client 2 stays.
C7_Witness == /\ ret.op = "GetClient" /\ ret.c = 1 /\ ret.n = 0 /\ made = 2
              /\ \E a \in DOMAIN pool : pool[a] = <<2>> /\ addr[1] = a

\* C8: Cleanup on an open pool leaves each address exactly its recyclable
\* clients, in the order they had; closes every other idle client once; and
\* leaves no address with an empty list.
C8_Step ==
    (Returned("Cleanup") /\ ~closed) =>
        /\ ret'.err = Nil
        /\ DOMAIN pool' = {a \in DOMAIN pool : Recyclables(pool[a]) # <<>>}
        /\ \A a \in DOMAIN pool' : pool'[a] = Recyclables(pool[a])
        /\ \A c \in Clients :
             closes'[c] = closes[c] + (IF c \in Idle /\ ~isRecyclable(c) THEN 1 ELSE 0)
C8_Cleanup == [][C8_Step]_vars

\* Cleanup has closed one idle client and kept another.
C8_Witness == ret.op = "Cleanup" /\ ret.n = 1 /\ Idle # {}

\* C9: no connection is closed twice, none is closed while idle or held, and
\* once the pool is closed and every client released, every client ever
\* constructed has been closed exactly once.
C9_ClosedOnce ==
    /\ \A c \in Clients :
         /\ closes[c] <= 1
         /\ (held[c] > 0 \/ c \in Idle) => closes[c] = 0
    /\ (closed /\ Held = {}) => \A c \in 1..made : closes[c] = 1

\* The pool is closed, the last client held has been released to it, and every
\* client it constructed is closed.
C9_Witness == /\ closed /\ Held = {} /\ made = MaxClients
              /\ \A c \in Clients : closes[c] = 1
              /\ ret.op = "PutClient" /\ ret.was

\* C10: SlaveOf of the client's own (non-empty) address returns the
\* self-replication error whatever the state of the client, sends neither INFO
\* nor SLAVEOF, and leaves LastErr, LastUse and the node as they were.
C10_Step ==
    \A c \in Clients :
      (cres'.op = "SlaveOf" /\ cres'.c = c /\ cres'.arg = addr[c]
         /\ addr[c] # EmptyStr) =>
        /\ cres'.err = ErrSelf
        /\ cres'.sent = <<>>
        /\ LastErr'[c] = LastErr[c]
        /\ LastUse'[c] = LastUse[c]
        /\ master' = master
C10_SlaveOfSelf == [][C10_Step]_vars

\* C10 happens: a healthy client that has been talking to its node was asked
\* to make the node a slave of itself
C10_Witness ==
    /\ cres.op = "SlaveOf" /\ cres.c = 1 /\ cres.arg = addr[1]
    /\ cres.err = ErrSelf
    /\ LastErr[1] = Nil /\ LastUse[1] > 0

\* the address of the master the node reports
MasterAddr == IF master = NoMaster THEN EmptyStr
              ELSE JoinHostPort(master.host, master.port)
\* SlaveOf(m) returns in this step, m a master to attach to
Attached(c, m) == /\ cres'.op = "SlaveOf" /\ cres'.c = c /\ cres'.arg = m
                  /\ m # EmptyStr /\ m # addr[c]
Has(s, x) == \E i \in 1..Len(s) : s[i] = x

\* C11: SlaveOf(M), M not empty and not the client's address, that returns
\* success leaves the node attached to M; called on a node that reports M as
\* its master it sends no SLAVEOF host port and does not touch the node: when
\* the lookup succeeds it returns success having sent INFO only.  So of two
\* calls in a row with the same M at most one sends the attach command.
C11_Step ==
    \A c \in Clients, m \in Masters :
      Attached(c, m) =>
        /\ cres'.err = Nil => MasterAddr' = m
        /\ MasterAddr = m =>
             /\ ~Has(cres'.sent, "SLAVEOF")
             /\ master' = master
             /\ (LastErr[c] = Nil /\ cres'.err = Nil) => cres'.sent = <<"INFO">>
        /\ (cres.op = "SlaveOf" /\ cres.c = c /\ cres.arg = m
              /\ Has(cres.sent, "SLAVEOF")) => ~Has(cres'.sent, "SLAVEOF")
C11_SlaveOfTwice == [][C11_Step]_vars

\* C11 happens: a healthy client asked for the master the node already has,
\* looked it up and sent nothing else
C11_Witness ==
    /\ cres.op = "SlaveOf" /\ cres.arg = MasterAddr /\ cres.arg # EmptyStr
    /\ cres.arg # addr[cres.c]
    /\ cres.err = Nil /\ cres.sent = <<"INFO">> /\ LastErr[cres.c] = Nil

\* C12: SlaveOf("") on a healthy client sends SLAVEOF NO ONE and nothing
\* else, no INFO before it, whether the node is a master or a replica; when
\* it returns success the node has no master, and a GetMaster that succeeds
\* on a node without a master returns "".
C12_Step ==
    \A c \in Clients :
      /\ (cres'.op = "SlaveOf" /\ cres'.c = c /\ cres'.arg = EmptyStr
            /\ LastErr[c] = Nil) =>
           /\ cres'.sent = <<"SLAVEOF NO ONE">>
           /\ cres'.err = Nil => master' = NoMaster
      /\ (cres'.op = "GetMaster" /\ cres'.c = c /\ cres'.err = Nil
            /\ master = NoMaster) => cres'.str = EmptyStr
C12_Detach == [][C12_Step]_vars

\* C12 happens: SlaveOf("") has returned success
C12_Witness ==
    /\ cres.op = "SlaveOf" /\ cres.arg = EmptyStr /\ cres.err = Nil
    /\ cres.sent = <<"SLAVEOF NO ONE">> /\ master = NoMaster

\* C13: with a secret configured, a NewRedisClient whose AUTH fails closes the
\* connection it dialed, constructs no client and returns the error; the
\* GetClient that called it returns that error and no client, leaves the
\* registry and every client as they were, and releases p.mu.
C13_Step ==
    (Returned("GetClient") /\ ret'.err = ErrAuth) =>
      /\ auth # EmptyStr
      /\ ret'.c = 0 /\ made' = made /\ held' = held
      /\ ret'.n = ret.n + 1
      /\ pool' = pool
      /\ UNCHANGED <<addr, LastErr, LastUse, closes>>
      /\ mu /\ ~mu'
C13_AuthFailure == [][C13_Step]_vars

\* C13 happens: GetClient missed, one address having an idle client, and the
\* AUTH on the new connection failed
C13_Witness ==
    /\ ret.op = "GetClient" /\ ret.err = ErrAuth /\ ret.c = 0
    /\ Idle # {} /\ ~mu

\* a reply of exactly two integers
TwoInts(r) == /\ r.t = "arr" /\ Len(r.v) = 2
              /\ \A i \in 1..Len(r.v) : r.v[i].t = "int"

\* C14: when the reply to SLOTSMGRTTAGSLOT for slot s arrives, (0, n) gives
\* n and no error, (status, n) with status other than 0 gives the migration
\* failure naming s and the count 0, and any reply that is not two integers
\* gives the decode error and the count 0; so (0, 17) for slot 5 gives 17 and
\* (1, 0) gives the failure naming slot 5.
C14_MgrtReplies ==
    (cres.op = "SlotsMgrtTagSlot" /\ cres.rep # 0) =>
      LET r == MgrtReplies[cres.rep] IN
      /\ IF TwoInts(r)
         THEN IF r.v[1].v = 0
              THEN cres.err = Nil /\ cres.num = r.v[2].v /\ cres.named = <<>>
              ELSE cres.err = ErrMigrate /\ cres.named = <<cres.slot>>
                   /\ cres.num = 0
         ELSE cres.err = ErrInvalidResponse /\ cres.num = 0
      /\ r = Arr(<<IntReply(0), IntReply(17)>>) => cres.err = Nil /\ cres.num = 17
      /\ (r = Arr(<<IntReply(1), IntReply(0)>>) /\ cres.slot = 5) =>
           cres.err = ErrMigrate /\ cres.named = <<5>>

\* C14 happens: the node answered (1, 0) to the migration of slot 5
C14_Witness ==
    /\ cres.op = "SlotsMgrtTagSlot" /\ cres.slot = 5
    /\ cres.rep # 0 /\ MgrtReplies[cres.rep] = Arr(<<IntReply(1), IntReply(0)>>)
    /\ cres.err = ErrMigrate

\* C15: when a node whose maxmemory is n answers CONFIG GET maxmemory,
\* GetMaxMemory returns +Inf and no error for n = 0, never 0, and n itself
\* and no error for n > 0.
C15_MaxMemory ==
    (cres.op = "GetMaxMemory" /\ cres.rep # 0) =>
      \A n \in MaxMemories :
        ConfigReplies[cres.rep] = MaxMemoryReply(n) =>
          /\ cres.err = Nil
          /\ n = 0 => cres.inf
          /\ n > 0 => ~cres.inf /\ cres.num = n

\* C15 happens: a node without a memory limit has answered
C15_Witness ==
    /\ cres.op = "GetMaxMemory" /\ cres.rep # 0
    /\ ConfigReplies[cres.rep] = MaxMemoryReply(0)
    /\ cres.inf /\ cres.err = Nil

\* C16: a client is recyclable iff it has no recorded error and the timeout is
\* 0 or now < LastUse + timeout/2, the half taken by integer division (for
\* integers, now - LastUse < timeout/2 iff 2 * (now - LastUse + 1) <= timeout).
\* So a client with an error is never recyclable, with timeout 0 a client
\* without error always is, and with timeout > 0 it is not once
\* now > LastUse + timeout/2.
C16_Recyclable ==
    \A c \in Clients :
      /\ isRecyclable(c) <=>
           /\ LastErr[c] = Nil
           /\ timeout = 0 \/ 2 * (now - LastUse[c] + 1) <= timeout
      /\ LastErr[c] # Nil => ~isRecyclable(c)
      /\ (LastErr[c] = Nil /\ timeout = 0) => isRecyclable(c)
      /\ (timeout > 0 /\ now > LastUse[c] + (timeout \div 2)) => ~isRecyclable(c)

\* C16 happens: an idle client without error is at the instant its half
\* timeout ends, and is not recyclable any more
C16_Witness ==
    \E c \in Idle :
      /\ LastErr[c] = Nil /\ timeout > 1
      /\ now = LastUse[c] + (timeout \div 2) /\ ~isRecyclable(c)

\* C17: p.mu serializes the pool: it is held only by a GetClient that is
\* constructing a client, and while it is held no other call changes the
\* registry or the closed flag, and none returns; every return of Close,
\* Cleanup, GetClient and PutClient, with or without error, leaves p.mu free;
\* and p.mu, once held, is released, so a waiting call proceeds.
C17_Step ==
    /\ mu => dialing # EmptyStr
    /\ mu => /\ UNCHANGED <<pool, closed, closes, order>>
             /\ ret'.op # "none" => ret'.op = "GetClient" /\ ~mu'
             /\ ret'.op = "none" => mu'
    /\ ret'.op # "none" => ~mu' /\ dialing' = EmptyStr
    /\ (~mu /\ mu') => ~closed /\ dialing' # EmptyStr
C18_Step ==
    /\ \A c \in Clients : Built(c) => mu /\ dialing = addr'[c] /\ ~closed'
    /\ (mu /\ mu') => /\ ret'.op = "none"
                      /\ UNCHANGED <<pool, closed, closes, held, made, dialing>>
    /\ (mu /\ ~mu') => /\ Returned("GetClient")
                       /\ ret'.err \in {Nil, ErrDial, ErrAuth}
                       /\ UNCHANGED <<pool, closed, closes>>
    /\ (Returned("Close") \/ Returned("Cleanup") \/ Returned("PutClient")) => ~mu
C18_DialUnderLock == [][C18_Step]_vars

\* C18 happens: GetClient has missed, another address having an idle client,
\* and is dialing with p.mu held
C18_Witness == mu /\ dialing # EmptyStr /\ Idle # {} /\ Held # {}

\* a method of client c returns in this step (the pool's calls change held or mu)
ClientCall(c) == /\ cres'.op # "none" /\ cres'.c = c
                 /\ held' = held /\ mu' = mu
\* the reply that arrived in the call cres tells of
ReplyOf(r) == CASE r.op = "SlotsInfo" -> SlotsInfoReplies[r.rep]
                [] r.op = "SlotsMgrtTagSlot" -> MgrtReplies[r.rep]
                [] r.op = "GetMaxMemory" -> ConfigReplies[r.rep]
\* the reply is one the method cannot take: a SlotsInfo pair of wrong arity, a
\* migration reply that is not two integers or has a status other than 0, a
\* maxmemory reply that is not a pair
Malformed(r) ==
    LET y == ReplyOf(r) IN
    CASE r.op = "SlotsInfo" ->
           y.t = "arr" /\ \E i \in 1..Len(y.v) : ~TwoInts(y.v[i])
      [] r.op = "SlotsMgrtTagSlot" -> ~TwoInts(y) \/ y.v[1].v # 0
      [] r.op = "GetMaxMemory" -> ~(y.t = "arr" /\ Len(y.v) = 2)
\* the last call on c got a reply and returned an error all the same
Undecoded(r, c) == r.op # "none" /\ r.c = c /\ r.ok > 0 /\ r.err # Nil
\* half the idle timeout is no time at all
NoHalf == timeout # 0 /\ timeout \div 2 = 0

\* a call that gets a reply and returns an error leaves the client recyclable
C19_Original ==
    [][\A c \in Clients :
         (ClientCall(c) /\ Undecoded(cres', c)) => isRecyclable(c)']_vars

\* C19: a call whose command gets a malformed reply or a failed migration
\* status returns an error that is not recorded: LastErr stays nil and LastUse
\* becomes now, so the client is recyclable unless half the idle timeout is 0.
\* Released right away it goes into the idle list of its address whenever it is
\* recyclable, and a GetClient of that address takes it from there while it
\* is.  LastUse becomes now in every call that gets a reply, and changes in no
\* other step of a client's life.
C19_Step ==
    \A c \in Clients :
      /\ (ClientCall(c) /\ cres'.rep # 0 /\ Malformed(cres')) => cres'.err # Nil
      /\ (ClientCall(c) /\ Undecoded(cres', c)) =>
           /\ cres'.err \notin DoOutcomes \cup {ErrFailedRedisClient}
           /\ LastErr'[c] = Nil /\ LastUse'[c] = now
           /\ isRecyclable(c)' <=> ~NoHalf
      /\ (Undecoded(cres, c) /\ Released(c)) =>
           /\ isRecyclable(c) <=> ~NoHalf
           /\ IF isRecyclable(c)
              THEN pool'[addr[c]] = <<c>> /\ closes' = closes
              ELSE closes'[c] = closes[c] + 1 /\ pool' = pool
      /\ (c \in Idle /\ isRecyclable(c) /\ ~mu /\ mu') => dialing' # addr[c]
      /\ (c \in Idle /\ held'[c] > held[c]) => Reused(c) /\ isRecyclable(c)
      /\ closes'[c] = closes[c] =>
           /\ LastUse'[c] # LastUse[c] => ClientCall(c) /\ cres'.ok > 0
           /\ (ClientCall(c) /\ cres'.ok > 0) => LastUse'[c] = now
           /\ (ClientCall(c) /\ cres'.ok = 0) => LastUse'[c] = LastUse[c]
C19_DecodeErrors == [][C19_Step]_vars

\* C19 happens: a client whose SlotsInfo got a pair of wrong arity was
\* released, and GetClient has given it out again
C19_Witness ==
    /\ cres.op = "SlotsInfo" /\ cres.err = ErrInvalidResponse /\ cres.c = 1
    /\ ret.op = "GetClient" /\ ret.c = 1 /\ ret.err = Nil
    /\ timeout = 4 /\ now > 0

\* ---------------------------------------------------------------------
\* C20
\* the address whose list GetClient scanned in this step: the only list
\* that lost a client
ScannedAddrs == {a \in DOMAIN pool :
                   a \notin DOMAIN pool' \/ Len(pool'[a]) < Len(pool[a])}

\* the idle lists hold only clients of their own address, without a
\* recorded error, that no caller holds
C20_Inv ==
    \A a \in DOMAIN pool : \A c \in Elems(pool[a]) :
        /\ addr[c] = a
        /\ LastErr[c] = Nil
        /\ held[c] = 0

C20_Step ==
    \A c \in Clients :
        \* only PutClient adds a client to an idle list: to the list of
        \* the client's address, and only a client without a recorded error
        /\ \A a \in DOMAIN pool' :
              (c \in Elems(pool'[a]) /\ (a \in DOMAIN pool => c \notin Elems(pool[a])))
                 => /\ Returned("PutClient") /\ Released(c)
                    /\ a = addr[c] /\ LastErr[c] = Nil
        \* a reused client comes from the one list GetClient scanned, the
        \* list of its address
        /\ Reused(c) => /\ c \in Idle
                        /\ addr[c] \in DOMAIN pool /\ c \in Elems(pool[addr[c]])
                        /\ ScannedAddrs \subseteq {addr[c]}
                        /\ addr'[c] = addr[c] /\ LastErr'[c] = Nil
        \* a freshly constructed client has the address GetClient was
        \* called with
        /\ Built(c) => /\ mu /\ addr'[c] = dialing /\ LastErr'[c] = Nil
                       /\ pool' = pool
        \* the fields of an idle client do not change while it is idle
        /\ (c \in Idle /\ c \in Idle') => /\ addr'[c] = addr[c]
                                          /\ LastErr'[c] = LastErr[c]

\* C20: in every reachable state, callers not using a Client after
\* releasing it, every Client stored in the idle list of address A has
\* address A and no recorded error; consequently every Client returned by
\* GetClient(A), reused from the list of A or freshly constructed for A,
\* has address A.
C20_IdleLists == []C20_Inv /\ [][C20_Step]_vars

\* GetClient has handed out client 1 again, taken from the list of its
\* address, while client 2 is idle in the list of the other address
C20_Witness ==
    /\ ret.op = "GetClient" /\ ret.err = Nil /\ ret.c = 1 /\ held[1] > 0
    /\ 2 \in Idle /\ addr[2] # addr[1]
    /\ Cardinality(DOMAIN pool) >= 1

====
